---- MODULE Spec2Model ----
(***************************************************************************)
(* Model of the chat core of heycast (src/src/chat.rs): the reactive       *)
(* signals of ChatApp, the submit handler handle_send_message, the         *)
(* textarea's on:input handler, and the asynchronous task that             *)
(* handle_send_message spawns around call_claude_api.                      *)
(*                                                                         *)
(* Text is a sequence of one-character strings, so that trim, prefixes     *)
(* and concatenation are computed and not assumed.                         *)
(***************************************************************************)
EXTENDS Integers, Sequences, FiniteSets

VARIABLES current_chat, input_text, is_streaming, error_message,
          tasks, requests, event

vars == <<current_chat, input_text, is_streaming, error_message,
          tasks, requests, event>>

(* ------------------------------ bounds --------------------------------- *)

\* number of accepted submits (spawned tasks) in one run
MaxSubmits == 2

(* ------------------------------- text ---------------------------------- *)

\* texts the user types: empty, blank, plain, and padded with whitespace
DraftTexts == {<< >>, <<" ">>, <<"a">>, <<" ", "a", " ">>}

\* texts of a completion field in a response body
Completions == {<<"y">>}

\* the text an error value of the platform carries
Details == {<<"x">>}

IsWhitespace(c) == c = " "

RECURSIVE TrimStart(_)
TrimStart(s) ==
    IF s = << >> THEN s
    ELSE IF IsWhitespace(Head(s)) THEN TrimStart(Tail(s))
    ELSE s

RECURSIVE TrimEnd(_)
TrimEnd(s) ==
    IF s = << >> THEN s
    ELSE IF IsWhitespace(s[Len(s)]) THEN TrimEnd(SubSeq(s, 1, Len(s) - 1))
    ELSE s

\* str::trim
Trim(s) == TrimEnd(TrimStart(s))

StartsWith(s, p) == Len(s) >= Len(p) /\ SubSeq(s, 1, Len(p)) = p

ErrorPrefix == <<"E", "r", "r", "o", "r", ":", " ">>
FetchErrorPrefix ==
    <<"f", "e", "t", "c", "h", " ", "e", "r", "r", "o", "r", ":", " ">>
JsonParseErrorPrefix ==
    <<"j", "s", "o", "n", " ", "p", "a", "r", "s", "e", " ",
      "e", "r", "r", "o", "r", ":", " ">>
\* serde's message for an object without the field (its quotes written as ')
MissingField ==
    <<"m", "i", "s", "s", "i", "n", "g", " ", "f", "i", "e", "l", "d", " ",
      "'", "c", "o", "m", "p", "l", "e", "t", "i", "o", "n", "'">>

\* Debug formatting of a JsValue
DebugJsValue(e) == <<"J", "s", "V", "a", "l", "u", "e", "(">> \o e \o <<")">>

\* e.to_string() of an error value: the text it carries
to_string(e) == e

(* ------------------------- results and bodies -------------------------- *)

\* Result<_, String>
Ok(t) == [tag |-> "Ok", val |-> t]
Err(r) == [tag |-> "Err", val |-> r]
NoResult == [tag |-> "None", val |-> << >>]

EmptyObject == [k \in {} |-> << >>]

\* JSON objects a response body can hold: with the completion field, and
\* with another field only
JsonObjects ==
    {[completion |-> y] : y \in Completions}
        \cup {[error |-> d] : d \in Details}

\* a response body: text that is not JSON, or the text of a JSON object
Body(kind, value) == [kind |-> kind, value |-> value]
Malformed == Body("malformed", EmptyObject)
NoBody == Body("none", EmptyObject)
Bodies == {Malformed} \cup {Body("json", o) : o \in JsonObjects}

\* json.into_serde::<ClaudeResponse>()
IntoSerde(json) ==
    IF "completion" \in DOMAIN json
    THEN Ok([completion |-> json.completion])
    ELSE Err(MissingField)

\* serde_json::to_string(&ClaudeRequest { prompt }) as a token sequence
ToJsonString(request_body) ==
    <<"{", "prompt", ":", request_body.prompt, "}">>

\* JSON::parse of a serialized one-field object
JsonParse(body_str) == [f \in {body_str[2]} |-> body_str[4]]

(* ------------------------------- state --------------------------------- *)

ChatMessage(id, content, is_user) ==
    [id |-> id, content |-> content, is_user |-> is_user]

\* the last step taken: the operation, the task it ran for, the path it took
\* through the code and the result call_claude_api returned in it
Event(op, task, cause, result) ==
    [op |-> op, task |-> task, cause |-> cause, result |-> result]

NoEvent == Event("init", 0, "none", NoResult)

\* a spawned task: the prompt it was given, where it is suspended, the body
\* of the response it holds, and the tag of the result its match arm ran on
Task(prompt, pc, resp) ==
    [prompt |-> prompt, pc |-> pc, resp |-> resp, outcome |-> "None"]

Init ==
    /\ current_chat = << >>
    /\ input_text = << >>
    /\ is_streaming = FALSE
    /\ error_message = << >>
    /\ tasks = << >>
    /\ requests = << >>
    /\ event = NoEvent

\* a task is outstanding from spawn_local until its match arm has run
Terminal == {"done", "panicked"}
Outstanding == {i \in DOMAIN tasks : tasks[i].pc \notin Terminal}

(* ------------------------------ actions -------------------------------- *)

\* SetDraftInput ignoring the keystroke while a request is in flight
SetDraftInput_idle_only(t) ==
    /\ ~is_streaming
    /\ input_text' = t
    /\ event' = Event("setDraftInput", 0, "none", NoResult)
    /\ UNCHANGED <<current_chat, is_streaming, error_message, tasks, requests>>

\* on:input of the textarea
SetDraftInput(t) ==
    /\ input_text' = t
    /\ event' = Event("setDraftInput", 0, "none", NoResult)
    /\ UNCHANGED <<current_chat, is_streaming, error_message, tasks, requests>>

\* handle_send_message storing the trimmed input as the message content
handle_send_message_trimmed ==
    LET input == input_text IN
    IF Trim(input) = << >>
    THEN /\ event' = Event("submit", 0, "blank", NoResult)
         /\ UNCHANGED <<current_chat, input_text, is_streaming,
                        error_message, tasks, requests>>
    ELSE /\ Len(tasks) < MaxSubmits
         /\ current_chat' =
                Append(current_chat,
                       ChatMessage(Len(current_chat), Trim(input), TRUE))
         /\ input_text' = << >>
         /\ is_streaming' = TRUE
         /\ tasks' = Append(tasks, Task(input, "spawned", NoBody))
         /\ event' = Event("submit", Len(tasks) + 1, "accepted", NoResult)
         /\ UNCHANGED <<error_message, requests>>

\* handle_send_message testing the input for emptiness without trimming it
handle_send_message_untrimmed_test ==
    LET input == input_text IN
    IF input = << >>
    THEN /\ event' = Event("submit", 0, "blank", NoResult)
         /\ UNCHANGED <<current_chat, input_text, is_streaming,
                        error_message, tasks, requests>>
    ELSE /\ Len(tasks) < MaxSubmits
         /\ current_chat' =
                Append(current_chat, ChatMessage(Len(current_chat), input, TRUE))
         /\ input_text' = << >>
         /\ is_streaming' = TRUE
         /\ tasks' = Append(tasks, Task(input, "spawned", NoBody))
         /\ event' = Event("submit", Len(tasks) + 1, "accepted", NoResult)
         /\ UNCHANGED <<error_message, requests>>

\* handle_send_message taking the id after the push instead of before it
handle_send_message_id_after_push ==
    LET input == input_text IN
    IF Trim(input) = << >>
    THEN /\ event' = Event("submit", 0, "blank", NoResult)
         /\ UNCHANGED <<current_chat, input_text, is_streaming,
                        error_message, tasks, requests>>
    ELSE /\ Len(tasks) < MaxSubmits
         /\ current_chat' =
                Append(current_chat,
                       ChatMessage(Len(current_chat) + 1, input, TRUE))
         /\ input_text' = << >>
         /\ is_streaming' = TRUE
         /\ tasks' = Append(tasks, Task(input, "spawned", NoBody))
         /\ event' = Event("submit", Len(tasks) + 1, "accepted", NoResult)
         /\ UNCHANGED <<error_message, requests>>

\* handle_send_message setting the in-flight flag without pushing the message
handle_send_message_no_push ==
    LET input == input_text IN
    IF Trim(input) = << >>
    THEN /\ event' = Event("submit", 0, "blank", NoResult)
         /\ UNCHANGED <<current_chat, input_text, is_streaming,
                        error_message, tasks, requests>>
    ELSE /\ Len(tasks) < MaxSubmits
         /\ input_text' = << >>
         /\ is_streaming' = TRUE
         /\ tasks' = Append(tasks, Task(input, "spawned", NoBody))
         /\ event' = Event("submit", Len(tasks) + 1, "accepted", NoResult)
         /\ UNCHANGED <<current_chat, error_message, requests>>

\* on:submit of the form
handle_send_message ==
    LET input == input_text IN
    IF Trim(input) = << >>
    THEN /\ event' = Event("submit", 0, "blank", NoResult)
         /\ UNCHANGED <<current_chat, input_text, is_streaming,
                        error_message, tasks, requests>>
    ELSE /\ Len(tasks) < MaxSubmits
         /\ current_chat' =
                Append(current_chat, ChatMessage(Len(current_chat), input, TRUE))
         /\ input_text' = << >>
         /\ is_streaming' = TRUE
         /\ tasks' = Append(tasks, Task(input, "spawned", NoBody))
         /\ event' = Event("submit", Len(tasks) + 1, "accepted", NoResult)
         /\ UNCHANGED <<error_message, requests>>

\* Callback whose Ok arm leaves the error message as it was
Callback_keeps_error(result) ==
    IF result.tag = "Ok"
    THEN /\ current_chat' =
                Append(current_chat,
                       ChatMessage(Len(current_chat), result.val, FALSE))
         /\ is_streaming' = FALSE
         /\ UNCHANGED error_message
    ELSE /\ is_streaming' = FALSE
         /\ error_message' = ErrorPrefix \o result.val
         /\ UNCHANGED current_chat

\* Callback whose Err arm stores the reason without the "Error: " prefix
Callback_bare_reason(result) ==
    IF result.tag = "Ok"
    THEN /\ current_chat' =
                Append(current_chat,
                       ChatMessage(Len(current_chat), result.val, FALSE))
         /\ is_streaming' = FALSE
         /\ error_message' = << >>
    ELSE /\ is_streaming' = FALSE
         /\ error_message' = result.val
         /\ UNCHANGED current_chat

\* Callback whose Ok arm sets the chat to the reply instead of pushing it
Callback_replaces_chat(result) ==
    IF result.tag = "Ok"
    THEN /\ current_chat' = <<ChatMessage(Len(current_chat), result.val, FALSE)>>
         /\ is_streaming' = FALSE
         /\ error_message' = << >>
    ELSE /\ is_streaming' = FALSE
         /\ error_message' = ErrorPrefix \o result.val
         /\ UNCHANGED current_chat

\* the match on the result of call_claude_api in the spawned task
Callback(result) ==
    IF result.tag = "Ok"
    THEN /\ current_chat' =
                Append(current_chat,
                       ChatMessage(Len(current_chat), result.val, FALSE))
         /\ is_streaming' = FALSE
         /\ error_message' = << >>
    ELSE /\ is_streaming' = FALSE
         /\ error_message' = ErrorPrefix \o result.val
         /\ UNCHANGED current_chat

\* the task returns from call_claude_api with result and runs its match arm
Finish(i, op, cause, result) ==
    /\ Callback(result)
    /\ tasks' = [tasks EXCEPT ![i].pc = "done", ![i].resp = NoBody,
                              ![i].outcome = result.tag]
    /\ event' = Event(op, i, cause, result)

\* an unwrap() of the task fails: the task ends and no match arm runs
Panic(i, op, cause) ==
    /\ tasks' = [tasks EXCEPT ![i].pc = "panicked", ![i].resp = NoBody]
    /\ event' = Event(op, i, cause, NoResult)
    /\ UNCHANGED <<current_chat, is_streaming, error_message>>

\* first poll of the task: call_claude_api up to the await of fetch
TaskStart(i) ==
    /\ tasks[i].pc = "spawned"
    /\ UNCHANGED input_text
    /\ \E window \in BOOLEAN :
         IF ~window
         THEN /\ Panic(i, "start", "no_window")
              /\ UNCHANGED requests
         ELSE \/ \E e \in Details :
                    /\ Finish(i, "start", "request_error", Err(to_string(e)))
                    /\ UNCHANGED requests
              \/ LET request_body == [prompt |-> tasks[i].prompt]
                     body_str == ToJsonString(request_body)
                 IN /\ requests' = Append(requests, JsonParse(body_str))
                    /\ tasks' = [tasks EXCEPT ![i].pc = "fetch"]
                    /\ event' = Event("start", i, "fetch_issued", NoResult)
                    /\ UNCHANGED <<current_chat, is_streaming, error_message>>

\* FetchSettle answering a rejected fetch with a second request
FetchSettle_retries(i) ==
    /\ tasks[i].pc = "fetch"
    /\ UNCHANGED input_text
    /\ \/ /\ requests' = Append(requests, [prompt |-> tasks[i].prompt])
          /\ event' = Event("fetch", i, "retry", NoResult)
          /\ UNCHANGED <<current_chat, is_streaming, error_message, tasks>>
       \/ /\ UNCHANGED requests
          /\ \/ Panic(i, "fetch", "not_response")
             \/ \E e \in Details :
                  Finish(i, "fetch", "json_call_error", Err(to_string(e)))
             \/ \E body \in Bodies :
                  /\ tasks' = [tasks EXCEPT ![i].pc = "json", ![i].resp = body]
                  /\ event' = Event("fetch", i, "response", NoResult)
                  /\ UNCHANGED <<current_chat, is_streaming, error_message>>

\* the promise of fetch settles: call_claude_api up to the await of json()
FetchSettle(i) ==
    /\ tasks[i].pc = "fetch"
    /\ UNCHANGED <<input_text, requests>>
    /\ \/ \E e \in Details :
            Finish(i, "fetch", "transport",
                   Err(FetchErrorPrefix \o DebugJsValue(e)))
       \/ Panic(i, "fetch", "not_response")
       \/ \E e \in Details :
            Finish(i, "fetch", "json_call_error", Err(to_string(e)))
       \/ \E body \in Bodies :
            /\ tasks' = [tasks EXCEPT ![i].pc = "json", ![i].resp = body]
            /\ event' = Event("fetch", i, "response", NoResult)
            /\ UNCHANGED <<current_chat, is_streaming, error_message>>

\* JsonSettle whose match arms also empty the draft
JsonSettle_clears_draft(i) ==
    /\ tasks[i].pc = "json"
    /\ input_text' = << >>
    /\ UNCHANGED requests
    /\ IF tasks[i].resp = Malformed
       THEN \E e \in Details :
              Finish(i, "json", "malformed",
                     Err(JsonParseErrorPrefix \o DebugJsValue(e)))
       ELSE LET claude_response == IntoSerde(tasks[i].resp.value) IN
            IF claude_response.tag = "Ok"
            THEN Finish(i, "json", "completion",
                        Ok(claude_response.val.completion))
            ELSE Finish(i, "json", "missing_field",
                        Err(to_string(claude_response.val)))

\* the promise of resp.json() settles: the rest of call_claude_api
JsonSettle(i) ==
    /\ tasks[i].pc = "json"
    /\ UNCHANGED <<input_text, requests>>
    /\ IF tasks[i].resp = Malformed
       THEN \E e \in Details :
              Finish(i, "json", "malformed",
                     Err(JsonParseErrorPrefix \o DebugJsValue(e)))
       ELSE LET claude_response == IntoSerde(tasks[i].resp.value) IN
            IF claude_response.tag = "Ok"
            THEN Finish(i, "json", "completion",
                        Ok(claude_response.val.completion))
            ELSE Finish(i, "json", "missing_field",
                        Err(to_string(claude_response.val)))

\* the steps of task i, for the fairness of the executor and of the promises
TaskStep(i) ==
    /\ i \in DOMAIN tasks
    /\ (TaskStart(i) \/ FetchSettle(i) \/ JsonSettle(i))

Next ==
    \/ \E t \in DraftTexts : SetDraftInput(t)
    \/ handle_send_message
    \/ \E i \in DOMAIN tasks : TaskStart(i)
    \/ \E i \in DOMAIN tasks : FetchSettle(i)
    \/ \E i \in DOMAIN tasks : JsonSettle(i)

Spec == Init /\ [][Next]_vars

\* every spawned task is polled and every promise it awaits settles
FairSpec == Spec /\ \A i \in 1..MaxSubmits : WF_vars(TaskStep(i))

(* ------------------------------ properties ----------------------------- *)

\* a step of handle_send_message
IsSubmit == event'.op = "submit"

\* C1: a submit taken while a request is pending changes neither the
\* messages, nor the pending flag, nor the error, and spawns no task.
C1_SubmitWhilePendingIsNoOp ==
    [][(is_streaming /\ IsSubmit) =>
         UNCHANGED <<current_chat, is_streaming, error_message, tasks>>]_vars

\* C2: the pending flag is set exactly when one call is outstanding.
C2_PendingIffOneOutstanding ==
    is_streaming <=> Cardinality(Outstanding) = 1

\* C3: a submit of a non-blank input from IDLE appends one USER message
\* whose id is the old length and whose content is the input as typed,
\* empties the draft, sets pending and spawns one task with that input as
\* its prompt.
C3_SubmitAccepted ==
    [][(~is_streaming /\ Trim(input_text) # << >> /\ IsSubmit) =>
         /\ current_chat' =
                Append(current_chat,
                       [id |-> Len(current_chat), content |-> input_text,
                        is_user |-> TRUE])
         /\ input_text' = << >>
         /\ is_streaming' = TRUE
         /\ tasks' = Append(tasks, tasks'[Len(tasks')])
         /\ tasks'[Len(tasks')].prompt = input_text
         /\ tasks'[Len(tasks')].pc = "spawned"]_vars

\* C3 witness: a padded input was submitted from IDLE and is stored as typed.
C3_Witness ==
    /\ event.op = "submit"
    /\ event.cause = "accepted"
    /\ Len(tasks) = 1
    /\ is_streaming
    /\ current_chat = <<[id |-> 0, content |-> <<" ", "a", " ">>,
                         is_user |-> TRUE]>>

\* C4: a submit of an empty or whitespace-only input changes no state and
\* spawns no task.
C4_BlankSubmitIsNoOp ==
    [][(Trim(input_text) = << >> /\ IsSubmit) =>
         UNCHANGED <<current_chat, input_text, is_streaming, error_message,
                     tasks, requests>>]_vars

\* C4 witness: a whitespace-only draft was submitted.
C4_Witness ==
    /\ event.op = "submit"
    /\ event.cause = "blank"
    /\ input_text = <<" ">>

\* C5: an accepted submit leaves the error empty.
C5_SubmitClearsError ==
    [][(Trim(input_text) # << >> /\ IsSubmit) => error_message' = << >>]_vars

\* task i ends in this step with its match arm run
Returns(i) == tasks[i].pc \notin Terminal /\ tasks'[i].pc = "done"

\* task i ends in this step, with or without its match arm run
Ends(i) == tasks[i].pc \notin Terminal /\ tasks'[i].pc \in Terminal

\* C6: the success callback with text t appends one ASSISTANT message with
\* the old length as id and t as content after the unchanged earlier
\* messages, clears pending and empties the error.
C6_OnCompletionSuccess ==
    [][\A i \in DOMAIN tasks :
         (Returns(i) /\ event'.result.tag = "Ok") =>
           /\ current_chat' =
                  Append(current_chat,
                         [id |-> Len(current_chat),
                          content |-> event'.result.val,
                          is_user |-> FALSE])
           /\ is_streaming' = FALSE
           /\ error_message' = << >>]_vars

\* C6 witness: a request failed, the next one succeeded with "y", and the
\* reply is the third message.
C6_Witness ==
    /\ event.result = Ok(<<"y">>)
    /\ Len(current_chat) = 3
    /\ current_chat[3] = [id |-> 2, content |-> <<"y">>, is_user |-> FALSE]
    /\ \E i \in DOMAIN tasks : tasks[i].pc = "done" /\ i # event.task

\* C7: the failure callback with reason r appends nothing, clears pending
\* and sets the error to "Error: " followed by r.
C7_OnCompletionFailure ==
    [][\A i \in DOMAIN tasks :
         (Returns(i) /\ event'.result.tag = "Err") =>
           /\ current_chat' = current_chat
           /\ is_streaming' = FALSE
           /\ error_message' =
                  <<"E", "r", "r", "o", "r", ":", " ">> \o event'.result.val]_vars

\* C7 witness: a second request failed at the transport after an earlier
\* failure of another kind.
C7_Witness ==
    /\ event.cause = "transport"
    /\ event.task = 2
    /\ tasks[1].pc = "done"
    /\ Len(current_chat) = 2
    /\ error_message =
          <<"E", "r", "r", "o", "r", ":", " ">> \o event.result.val
    /\ ~is_streaming

\* C8: when the task of a submit ends, exactly one of the two outcomes has
\* happened in that step (an ASSISTANT message appended, or an error
\* recorded) and pending is false after it.
C8_ExactlyOneOutcome ==
    [][\A i \in DOMAIN tasks :
         Ends(i) =>
           /\ \/ /\ Len(current_chat') = Len(current_chat) + 1
                 /\ ~current_chat'[Len(current_chat')].is_user
                 /\ error_message' = << >>
              \/ /\ current_chat' = current_chat
                 /\ error_message' # << >>
                 /\ event'.result.tag = "Err"
           /\ is_streaming' = FALSE]_vars

\* C9: every pending state is followed by an idle one.
C9_ReturnsToIdle == is_streaming ~> ~is_streaming

\* C10: a rejected fetch gives a reason starting with "fetch error: ", a
\* body that is not JSON or lacks the completion field gives a reason
\* starting with "json parse error: ", a body with completion y gives
\* Ok(y), and every reason r arrives as the error "Error: " followed by r.
C10_OutcomeMapping ==
    [][\A i \in DOMAIN tasks :
         Returns(i) =>
           /\ event'.cause = "transport" =>
                 /\ event'.result.tag = "Err"
                 /\ StartsWith(event'.result.val, FetchErrorPrefix)
           /\ tasks[i].pc = "json" =>
                 IF /\ tasks[i].resp.kind = "json"
                    /\ "completion" \in DOMAIN tasks[i].resp.value
                 THEN event'.result = Ok(tasks[i].resp.value.completion)
                 ELSE /\ event'.result.tag = "Err"
                      /\ StartsWith(event'.result.val, JsonParseErrorPrefix)
           /\ event'.result.tag = "Err" =>
                 error_message' = ErrorPrefix \o event'.result.val]_vars

\* C11: no task ends without its match arm: every task that has ended
\* returned Ok or Err from call_claude_api.
C11_NeverThrows ==
    \A i \in DOMAIN tasks :
        tasks[i].pc \in Terminal =>
            tasks[i].pc = "done" /\ tasks[i].outcome \in {"Ok", "Err"}

\* the USER messages of the chat, as positions
UserPositions == {k \in DOMAIN current_chat : current_chat[k].is_user}

\* C12: while pending, the chat holds the USER message of the latest
\* accepted submit, and the flag is only ever raised by a step that appends
\* a USER message.
C12_MessageBeforeIndicator ==
    /\ [](is_streaming =>
            /\ current_chat # << >>
            /\ tasks # << >>
            /\ \E k \in UserPositions :
                 /\ current_chat[k].content = tasks[Len(tasks)].prompt
                 /\ \A j \in UserPositions : j <= k)
    /\ [][(~is_streaming /\ is_streaming') =>
            /\ Len(current_chat') = Len(current_chat) + 1
            /\ current_chat'[Len(current_chat')].is_user]_vars

\* C12 witness: a padded input was accepted and its message is shown with
\* the indicator.
C12_Witness ==
    /\ is_streaming
    /\ event.op = "submit"
    /\ current_chat[Len(current_chat)].content = <<" ", "a", " ">>
    /\ current_chat[Len(current_chat)].is_user

IsPrefix(s, t) == Len(s) <= Len(t) /\ SubSeq(t, 1, Len(s)) = s

\* C13: every step leaves the old chat as a prefix of the new one and adds
\* at most one message.
C13_AppendOnly ==
    [][/\ IsPrefix(current_chat, current_chat')
       /\ Len(current_chat') <= Len(current_chat) + 1]_vars

\* C13 witness: a reply was appended after two USER messages.
C13_Witness ==
    /\ Len(current_chat) = 3
    /\ current_chat[1].is_user
    /\ current_chat[2].is_user
    /\ ~current_chat[3].is_user
    /\ event.result.tag = "Ok"

\* C14: the message at 0-based position i has id i, so ids are unique and
\* strictly increasing along the chat.
C14_IdIsPosition ==
    \A k \in DOMAIN current_chat : current_chat[k].id = k - 1

\* C14 witness: two requests were in flight together and the second one
\* completed first; both replies are in the chat.
C14_Witness ==
    /\ Len(current_chat) = 4
    /\ current_chat[1].is_user
    /\ current_chat[2].is_user
    /\ ~current_chat[3].is_user
    /\ ~current_chat[4].is_user
    /\ event.task = 1
    /\ event.result.tag = "Ok"

\* C15: in every state the input handler can run for every text t, and its
\* step sets the draft to t and changes nothing else.
C15_SetDraftInputUnconditional ==
    /\ [](\A t \in DraftTexts :
            ENABLED (/\ SetDraftInput(t)
                     /\ input_text' = t
                     /\ UNCHANGED <<current_chat, is_streaming, error_message,
                                    tasks, requests>>))
    /\ [][event'.op = "setDraftInput" =>
            /\ input_text' \in DraftTexts
            /\ UNCHANGED <<current_chat, is_streaming, error_message,
                           tasks, requests>>]_vars

\* C15 witness: a text was typed while a request is in flight.
C15_Witness ==
    /\ event.op = "setDraftInput"
    /\ is_streaming
    /\ Outstanding # {}
    /\ input_text = <<" ", "a", " ">>

\* the tasks suspended on their exchange: fetch issued, result not yet known
InExchange == {i \in DOMAIN tasks : tasks[i].pc \in {"fetch", "json"}}

\* C16: once the invocation of every accepted submit has returned its
\* result, as many requests were issued as submits were accepted.
C16_OneRequestPerSubmit ==
    (\A i \in DOMAIN tasks : tasks[i].pc = "done") =>
        Len(requests) = Len(tasks)

\* C16 (amended): a request is issued only by the first step of a task, with
\* that task's prompt as its body, so each task issues at most one; there
\* are never more requests than accepted submits and never fewer than tasks
\* suspended on their exchange; a step that reports a failure issues none.
C16_AtMostOneRequest ==
    /\ [](/\ Len(requests) <= Len(tasks)
          /\ Len(requests) >= Cardinality(InExchange))
    /\ [][/\ requests' # requests =>
               \E i \in DOMAIN tasks :
                   /\ tasks[i].pc = "spawned"
                   /\ tasks'[i].pc = "fetch"
                   /\ requests' = Append(requests, [prompt |-> tasks[i].prompt])
          /\ \A i \in DOMAIN tasks :
               (tasks[i].pc = "spawned" /\ tasks'[i].pc = "fetch") =>
                   Len(requests') = Len(requests) + 1
          /\ \A i \in DOMAIN tasks :
               (Returns(i) /\ event'.result.tag = "Err") =>
                   requests' = requests]_vars

\* C16 witness: two submits were accepted, both exchanges failed at the
\* transport and were reported, and two requests were issued in all.
C16_Witness ==
    /\ Len(tasks) = 2
    /\ Outstanding = {}
    /\ \A i \in DOMAIN tasks : tasks[i].outcome = "Err"
    /\ event.cause = "transport"
    /\ Len(requests) = 2
    /\ requests[1] = [prompt |-> tasks[1].prompt]

\* the numbers of USER messages, of ASSISTANT messages and of requests
\* whose match arm ran on Err
Users == Cardinality(UserPositions)
Assistants == Len(current_chat) - Users
Failures == Cardinality({i \in DOMAIN tasks : tasks[i].outcome = "Err"})

\* C17: the USER messages are as many as the ASSISTANT messages, the failed
\* requests and the outstanding requests together, and the ASSISTANT
\* messages never outnumber the USER messages.
C17_Conservation ==
    /\ Users = Assistants + Failures + Cardinality(Outstanding)
    /\ Assistants <= Users

\* the position of the USER message pushed by the submit that spawned task i
UserPositionOf(i) ==
    CHOOSE k \in UserPositions :
        Cardinality({j \in UserPositions : j <= k}) = i

\* C18: when a request completes with Ok, the last message of the chat is
\* the USER message of that request, so the reply is appended directly
\* after its own prompt.
C18_ReplyFollowsOwnPrompt ==
    [][\A i \in DOMAIN tasks :
         (Returns(i) /\ event'.result.tag = "Ok") =>
           /\ UserPositionOf(i) = Len(current_chat)
           /\ current_chat[Len(current_chat)].content = tasks[i].prompt]_vars

\* C19: a step in which a match arm runs leaves the draft as it was.
C19_CallbacksKeepDraft ==
    [][\A i \in DOMAIN tasks : Returns(i) => input_text' = input_text]_vars

\* C19 witness: a text typed while the request was in flight is still the
\* draft after the request completed through the last await.
C19_Witness ==
    /\ event.op = "json"
    /\ event.result.tag \in {"Ok", "Err"}
    /\ ~is_streaming
    /\ input_text = <<" ", "a", " ">>

====
